---- MODULE Spec2Model ----
(***************************************************************************)
(* Verification model of genetic_rule_miner: the Rule model                *)
(* (utils/rule.py) and the DatabaseManager storage engine                  *)
(* (data/database.py): singleton construction, scoped connections, bulk    *)
(* load, rule persistence and the paginated, join-based rule read.         *)
(*                                                                         *)
(* Specifications that share the variables:                                *)
(*   Spec          the rule store: save_rules, paginated fetch, queries    *)
(*   SpecUow       a caller's unit of work inside connection()             *)
(*   SpecLoad      bulk loads of CSV buffers, copy_from_buffer             *)
(*   SpecSingleton construction requests DatabaseManager(config)           *)
(*   SpecRule      the Rule algebra on pairs of Rules                      *)
(*   SpecOrder     is_subset_of and == on triples of Rules                 *)
(*   SpecPaging    a reader paging through a target next to a writer       *)
(*   SpecFetch     AnimeService._fetch_anime, one call                     *)
(*   SpecThreads   two threads constructing DatabaseManager                *)
(***************************************************************************)
EXTENDS Integers, Sequences, FiniteSets, TLC

VARIABLES
    db,          \* committed contents of the relational store, one field per table
    saved,       \* history: rule_id -> the Rule object save_rules persisted under it
    conn,        \* the connection a caller's unit of work holds (NoConn when none)
    open,        \* number of connections acquired and not yet closed
    pc,          \* position of the caller: "idle", holding a call's outcome
                 \* ("returned") or inside its own with-block ("body")
    entry,       \* history: the store as it was when the unit of work began
    ret,         \* outcome of the last finished operation
    mgr,         \* DatabaseManager class and instance state (_instance, _initialized, ...)
    reqs,        \* history of the construction requests made so far
    pair,        \* the two Rules the algebra is applied to, with the results
    reader,      \* a second caller that fetches the pages of one target in turn
    svc,         \* AnimeService._fetch_anime: the call in progress and its history
    thr          \* the threads that construct DatabaseManager, each at its step

vars ==
    <<db, saved, conn, open, pc, entry, ret, mgr, reqs, pair, reader, svc, thr>>

----------------------------------------------------------------------------
(* Bounds of the model *)

MaxRules == 2       \* header rows the store can hold (pool of rule ids)
MaxBatch == 2       \* Rules passed to one save_rules call
MaxOffset == 3      \* largest offset a page request passes
MaxLimit == 2       \* largest limit a page request passes
MaxRequests == 3    \* construction requests in one process
MaxBlockLen == 2    \* conditions in one block of a Rule the algebra is applied to
MaxRetries == 3     \* largest config.max_retries of an AnimeService

----------------------------------------------------------------------------
(* Python values.  A value keeps its runtime type, which save_rules inspects;
   None is a value of its own.  Strings that can be None use the NoneStr
   token, which is no column, operator or table name of the model. *)

PyInt(s) == [type |-> "int", repr |-> s]
PyStr(s) == [type |-> "str", repr |-> s]
\* numpy.int64(s): an integer of numpy, as pandas columns and Rule.target hold
PyNpInt64(s) == [type |-> "numpy.int64", repr |-> s]
None == [type |-> "NoneType", repr |-> "None"]
NoneStr == "<None>"

\* the types whose values are instances of int or of float: bool subclasses
\* int and numpy.float64 subclasses float; numpy.int64 subclasses neither
IntOrFloatInstances == {"int", "float", "bool", "numpy.float64"}

\* isinstance(value, (int, float))
IsNumeric(v) == v.type \in IntOrFloatInstances

\* str(value)
Str(v) == PyStr(v.repr)

\* truth value of a string-or-None, as `if row["column_name"]:` tests it
Truthy(s) == s # NoneStr /\ s # ""

Range(s) == {s[i] : i \in DOMAIN s}

----------------------------------------------------------------------------
(* utils/rule.py *)

\* (col, (op, value))
Cond(col, op, val) == [column |-> col, operator |-> op, value |-> val]

\* Rule.__init__: conditions = (user_conditions, other_conditions), target
Rule(user, other, target) ==
    [user_conditions |-> user, other_conditions |-> other, target |-> target]

\* Rule.__len__
RuleLen(r) == Len(r.user_conditions) + Len(r.other_conditions)

cond_key_set_with_values(conds) ==
    {<<conds[i].column, conds[i].operator, conds[i].value>> : i \in DOMAIN conds}

\* Rule._cond_key_set: frozenset((col, op) for col, (op, _) in conds)
cond_key_set(conds) ==
    {<<conds[i].column, conds[i].operator>> : i \in DOMAIN conds}

\* Rule.cond_signature
cond_signature(r) ==
    <<cond_key_set(r.user_conditions), cond_key_set(r.other_conditions), r.target>>

\* Rule.__eq__ (both operands are Rules)
RuleEq(a, b) == cond_signature(a) = cond_signature(b)

\* hash() of a str, on the strings of the model (equal strings, equal hashes)
HashStr(s) ==
    CASE s = "age" -> 101 [] s = "sex" -> 211 [] s = "genre" -> 307
      [] s = ">" -> 401 [] s = "==" -> 503 [] s = "" -> 0
      [] OTHER -> 601

\* hash() of a (col, op) tuple: order-dependent combination of the items
HashPair(p) == (HashStr(p[1]) * 31 + HashStr(p[2])) % 8191

\* hash() of a frozenset: order-independent combination of the members
RECURSIVE HashFrozenset(_)
HashFrozenset(S) ==
    IF S = {} THEN 0
    ELSE LET e == CHOOSE x \in S : TRUE
         IN (HashPair(e) + HashFrozenset(S \ {e})) % 8191

\* Rule.__hash__: hash(self.cond_signature())
RuleHash(r) ==
    LET sig == cond_signature(r)
    IN ((HashFrozenset(sig[1]) * 31 + HashFrozenset(sig[2])) * 31 + sig[3]) % 8191

is_subset_of_any_target(a, b) ==
    LET sa == cond_signature(a)
        sb == cond_signature(b)
    IN sa[1] \subseteq sb[1] /\ sa[2] \subseteq sb[2]

is_subset_of_merged(a, b) ==
    IF a.target # b.target THEN FALSE
    ELSE LET sa == cond_signature(a)
             sb == cond_signature(b)
         IN (sa[1] \cup sa[2]) \subseteq (sb[1] \cup sb[2])

\* Rule.is_subset_of
is_subset_of(a, b) ==
    IF a.target # b.target THEN FALSE
    ELSE LET sa == cond_signature(a)
             sb == cond_signature(b)
         IN sa[1] \subseteq sb[1] /\ sa[2] \subseteq sb[2]

is_more_specific_than_fewer(a, b) ==
    IF ~is_subset_of(a, b) THEN FALSE
    ELSE Len(a.user_conditions) + Len(a.other_conditions)
            < Len(b.user_conditions) + Len(b.other_conditions)

is_more_specific_than_by_signature(a, b) ==
    IF ~is_subset_of(a, b) THEN FALSE
    ELSE LET sa == cond_signature(a)
             sb == cond_signature(b)
         IN Cardinality(sa[1]) + Cardinality(sa[2])
               > Cardinality(sb[1]) + Cardinality(sb[2])

\* Rule.is_more_specific_than
is_more_specific_than(a, b) ==
    IF ~is_subset_of(a, b) THEN FALSE
    ELSE Len(a.user_conditions) + Len(a.other_conditions)
            > Len(b.user_conditions) + Len(b.other_conditions)

----------------------------------------------------------------------------
(* config.py DBConfig and data/database.py DatabaseManager construction *)

\* A DBConfig, or None (present = FALSE).  An absent or empty parameter is
\* "", which Python's `and` chain treats as false.  DBConfig.__post_init__
\* rejects a port outside 1..65535, so no DBConfig has port 0.
ValidCfg ==
    [present |-> TRUE, user |-> "postgres", password |-> "postgres",
     host |-> "postgres", port |-> 5432, database |-> "mydatabase"]
OtherCfg == [ValidCfg EXCEPT !.host = "replica"]
NoneCfg ==
    [present |-> FALSE, user |-> "", password |-> "", host |-> "",
     port |-> 0, database |-> ""]
MissingCfgs ==
    {[ValidCfg EXCEPT !.user = ""], [ValidCfg EXCEPT !.password = ""],
     [ValidCfg EXCEPT !.host = ""], [ValidCfg EXCEPT !.database = ""],
     NoneCfg}
Configs == {ValidCfg, OtherCfg} \cup MissingCfgs

\* the condition of _init_sqlalchemy_engine (lines 107-114)
ConfigComplete(cfg) ==
    /\ cfg.present
    /\ cfg.password # ""
    /\ cfg.user # ""
    /\ cfg.host # ""
    /\ cfg.port # 0
    /\ cfg.database # ""

NoEngine == <<>>
ConnStr(cfg) == <<cfg.user, cfg.password, cfg.host, cfg.port, cfg.database>>

\* the class before any request: _instance = None
NoManager ==
    [created |-> 0, initialized |-> FALSE, engine |-> NoEngine,
     config |-> NoneCfg, setupRuns |-> 0]

\* DatabaseManager.__new__
new(m) ==
    IF m.created = 0
    THEN [m EXCEPT !.created = 1, !.initialized = FALSE]
    ELSE m

\* DatabaseManager._init_sqlalchemy_engine; engineFault: create_engine raises.
\* Result: the manager, and whether DatabaseError was raised.
init_sqlalchemy_engine(m, engineFault) ==
    IF ConfigComplete(m.config)
    THEN IF engineFault
         THEN [m |-> m, raised |-> TRUE]
         ELSE [m |-> [m EXCEPT !.engine = ConnStr(m.config)], raised |-> FALSE]
    ELSE [m |-> m, raised |-> FALSE]      \* logger.error("Config is empty")

\* DatabaseManager.initialize
initialize(m, engineFault) ==
    init_sqlalchemy_engine([m EXCEPT !.setupRuns = @ + 1], engineFault)

init_unguarded(m, cfg, engineFault) ==
    LET r == initialize([m EXCEPT !.config = cfg, !.engine = NoEngine], engineFault)
    IN IF r.raised THEN r
       ELSE [m |-> [r.m EXCEPT !.initialized = TRUE], raised |-> FALSE]

\* DatabaseManager.__init__
init(m, cfg, engineFault) ==
    IF m.initialized
    THEN [m |-> m, raised |-> FALSE]
    ELSE LET r == initialize([m EXCEPT !.config = cfg, !.engine = NoEngine],
                             engineFault)
         IN IF r.raised THEN r
            ELSE [m |-> [r.m EXCEPT !.initialized = TRUE], raised |-> FALSE]

\* DatabaseManager(cfg): type.__call__ runs __new__, then __init__ on its result
Construct(m, cfg, engineFault) == init(new(m), cfg, engineFault)

\* One construction request.  The request's record keeps what the caller saw:
\* the instance returned (0 when the call raised).
Request(cfg, engineFault) ==
    /\ Len(reqs) < MaxRequests
    /\ engineFault => ConfigComplete(cfg) /\ ~new(mgr).initialized
    /\ LET r == Construct(mgr, cfg, engineFault)
       IN /\ mgr' = r.m
          /\ reqs' = Append(reqs,
                [cfg |-> cfg, raised |-> r.raised,
                 returned |-> IF r.raised THEN 0 ELSE r.m.created,
                 ranSetup |-> r.m.setupRuns # mgr.setupRuns])
    /\ UNCHANGED <<db, saved, conn, open, pc, entry, ret, pair, reader, svc, thr>>

----------------------------------------------------------------------------
(* The relational store and SQLAlchemy connections *)

\* committed contents: rules(rule_id, target_value), rule_conditions(...),
\* and the tables the bulk loader writes
EmptyDb ==
    [rules |-> {}, rule_conditions |-> {}, user_details |-> {}, user_score |-> {},
     watch_log |-> {}]

\* An exception: its class and the class of its __cause__ ("" when none)
NoExc == [kind |-> "", cause |-> ""]
Exc(kind) == [kind |-> kind, cause |-> ""]
\* raise DatabaseError(...) from e
DatabaseErrorFrom(e) == [kind |-> "DatabaseError", cause |-> e.kind]

\* A Connection: the committed store it reads and its open transaction.
\* engine.connect()
Connect(d) == [db |-> d, tx |-> d]
\* conn.commit()
Commit(c) == [c EXCEPT !.db = c.tx]
\* conn.rollback(); conn.close() discards the open transaction the same way
Rollback(c) == [c EXCEPT !.tx = c.db]

ExecuteInsertAutocommit(c, table, rows) ==
    [c EXCEPT !.tx[table] = @ \cup rows, !.db[table] = @ \cup rows]

\* conn.execute(text("INSERT INTO table ..."), rows): rows join the open
\* transaction and are not visible in the store until commit
ExecuteInsert(c, table, rows) == [c EXCEPT !.tx[table] = @ \cup rows]

\* connection(), lines 85-92, up to the yield: the connection acquired (or
\* not) and the exception raised before the body runs
connection_enter(engine, connectFault) ==
    IF engine # NoEngine
    THEN IF connectFault
         THEN [acquired |-> FALSE, exc |-> Exc("OperationalError")]
         ELSE [acquired |-> TRUE, exc |-> NoExc]
    ELSE [acquired |-> FALSE, exc |-> Exc("DatabaseError")]

finally_close_on_success(n, acquired, exc) ==
    IF acquired /\ exc = NoExc THEN n - 1 ELSE n

\* connection(), lines 96-98: finally: if connection: connection.close()
finally_close(n, acquired, exc) == IF acquired THEN n - 1 ELSE n

\* connection(), lines 89-98, from the yield on: bodyExc is what the body
\* raised into the generator (NoExc when it completed); commitFault: the
\* commit of line 90 raises.  Result: the store, the exception the caller
\* sees and the open-connection count.
connection_exit(c, n, bodyExc, commitFault) ==
    LET afterTry ==
            IF bodyExc # NoExc THEN [c |-> c, exc |-> bodyExc]
            ELSE IF commitFault THEN [c |-> c, exc |-> Exc("OperationalError")]
            ELSE [c |-> Commit(c), exc |-> NoExc]
        raised ==
            IF afterTry.exc # NoExc THEN DatabaseErrorFrom(afterTry.exc) ELSE NoExc
    IN [db |-> Rollback(afterTry.c).db,
        exc |-> raised,
        open |-> finally_close(n, TRUE, afterTry.exc)]

\* with self.connection() as conn: <body>, as one call.  body is the outcome
\* [c, exc, value] of the with-block on the connection Connect(d), used only
\* when the connection was acquired; the result is what the caller gets.
connection(d, n, engine, connectFault, commitFault, body) ==
    LET e == connection_enter(engine, connectFault)
    IN IF ~e.acquired
       THEN [db |-> d, exc |-> DatabaseErrorFrom(e.exc), value |-> <<>>,
             open |-> finally_close(n, FALSE, e.exc)]
       ELSE LET b == body
                x == connection_exit(b.c, n + 1, b.exc, commitFault)
            IN [db |-> x.db, exc |-> x.exc,
                value |-> IF x.exc = NoExc THEN b.value ELSE <<>>,
                open |-> x.open]

\* no connection held; no call made yet; the algebra not in use
NoConn == Connect(EmptyDb)
NoLoad == [buffer |-> [columns |-> <<>>, rows |-> <<>>], table |-> "", action |-> ""]
NoRet ==
    [op |-> "", fault |-> "none", exc |-> NoExc, value |-> <<>>, target |-> 0,
     offset |-> 0, limit |-> 0, batch |-> 0, load |-> NoLoad, again |-> FALSE,
     bad |-> {}]
NoPair == [phase |-> "off"]
NoReader == [phase |-> "off"]
NoSvc == [pc |-> "off"]
NoThreads == <<>>

----------------------------------------------------------------------------
(* The Rules callers persist *)

cAge == Cond("age", ">", PyInt("18"))
cSex == Cond("sex", "==", PyStr("m"))
cGenre == Cond("genre", "==", PyStr("x"))
cBlank == Cond("", "==", PyInt("1"))
cScore == Cond("score", ">", PyNpInt64("8"))

Targets == {5, 7}

RulePool ==
    {Rule(<<>>, <<>>, 5),
     Rule(<<cAge>>, <<>>, 5),
     Rule(<<cAge>>, <<cGenre>>, 5),
     Rule(<<cBlank>>, <<>>, 7),
     Rule(<<cScore, cSex>>, <<>>, 7)}

\* the longest Rule of the pool
MaxRuleLen == CHOOSE n \in 0..8 :
    /\ \A r \in RulePool : RuleLen(r) <= n
    /\ \E r \in RulePool : RuleLen(r) = n

\* list[Rule] arguments of save_rules
Batches == UNION {[1..n -> RulePool] : n \in 0..MaxBatch}

\* str(uuid.uuid4()): an identifier no stored row has.  Identifiers are
\* numbers, ordered as the store orders the uuid strings; any order between
\* old and new identifiers is possible.
RuleIds == 1..MaxRules
FreshRuleIds(d) == RuleIds \ {h.rule_id : h \in d.rules}

Injective(f) == \A i, j \in DOMAIN f : f[i] = f[j] => i = j
Perms(n) == {f \in [1..n -> 1..n] : Injective(f)}

\* condition_id: rank k among the condition ids minted for rule rid.  The
\* store compares condition ids only between rows of one rule_id.
CondId(rid, k) == (rid - 1) * MaxRuleLen + k

----------------------------------------------------------------------------
(* DatabaseManager.save_rules *)

\* rules_data entry, lines 342-351: int(rule.target) of an integer target
HeaderRow(rid, r) == [rule_id |-> rid, target_value |-> r.target]

\* condition_data, lines 355-369 and 375-389
ConditionRow(cid, rid, table, c) ==
    [condition_id |-> cid, rule_id |-> rid, table_name |-> table,
     column_name |-> c.column, operator |-> c.operator,
     value_text |-> IF IsNumeric(c.value) THEN None ELSE Str(c.value),
     value_numeric |-> IF IsNumeric(c.value) THEN c.value ELSE None]

\* the condition rows of one Rule; perm gives the order of the minted ids
ConditionsOf(rid, r, perm) ==
    LET nu == Len(r.user_conditions)
    IN {ConditionRow(CondId(rid, perm[i]), rid, "user_details",
                     r.user_conditions[i]) : i \in 1..nu}
       \cup
       {ConditionRow(CondId(rid, perm[nu + j]), rid, "anime_dataset",
                     r.other_conditions[j]) : j \in 1..Len(r.other_conditions)}

save_rules_body_dedup(c, rs, rids, perms, fault) ==
    LET kept == {i \in DOMAIN rs : \A j \in 1..(i - 1) : ~RuleEq(rs[j], rs[i])}
        rules_data == {HeaderRow(rids[i], rs[i]) : i \in kept}
        conditions_data ==
            UNION {ConditionsOf(rids[i], rs[i], perms[i]) : i \in kept}
        c1 == IF rules_data # {} THEN ExecuteInsert(c, "rules", rules_data) ELSE c
        c2 == IF conditions_data # {}
              THEN ExecuteInsert(c1, "rule_conditions", conditions_data)
              ELSE c1
    IN IF fault \in {"insert_rules", "insert_conditions", "commit"}
       THEN [c |-> Rollback(c), exc |-> Exc("IntegrityError"), value |-> <<>>]
       ELSE [c |-> Commit(c2), exc |-> NoExc, value |-> <<>>]

\* the body of the with-block, lines 333-428.  fault names the statement that
\* raises: "insert_rules", "insert_conditions", "commit" (or none of them).
save_rules_body(c, rs, rids, perms, fault) ==
    LET rules_data == {HeaderRow(rids[i], rs[i]) : i \in DOMAIN rs}
        conditions_data ==
            UNION {ConditionsOf(rids[i], rs[i], perms[i]) : i \in DOMAIN rs}
        failed(cx, kind) == [c |-> Rollback(cx), exc |-> Exc(kind), value |-> <<>>]
        c1 == IF rules_data # {} THEN ExecuteInsert(c, "rules", rules_data) ELSE c
        c2 == IF conditions_data # {}
              THEN ExecuteInsert(c1, "rule_conditions", conditions_data)
              ELSE c1
    IN IF rules_data # {} /\ fault = "insert_rules"
       THEN failed(c, "IntegrityError")
       ELSE IF conditions_data # {} /\ fault = "insert_conditions"
       THEN failed(c1, "IntegrityError")
       ELSE IF fault = "commit"
       THEN failed(c2, "OperationalError")
       ELSE [c |-> Commit(c2), exc |-> NoExc, value |-> <<>>]

\* save_rules(rules) as one call
save_rules(d, n, engine, rs, rids, perms, fault) ==
    connection(d, n, engine, fault = "connect", fault = "exit_commit",
               save_rules_body(Connect(d), rs, rids, perms, fault))

SaveFaults ==
    {"none", "connect", "insert_rules", "insert_conditions", "commit", "exit_commit"}

\* the faults that can happen on the path the call takes
SaveFaultApplies(engine, rs, fault) ==
    \/ fault = "none"
    \/ /\ engine # NoEngine
       /\ fault = "insert_rules" => rs # <<>>
       /\ fault = "insert_conditions" => \E i \in DOMAIN rs : RuleLen(rs[i]) > 0

SaveRules(rs, fault) ==
    /\ pc = "idle"
    /\ Len(rs) <= Cardinality(FreshRuleIds(db))
    /\ SaveFaultApplies(mgr.engine, rs, fault)
    /\ \E rids \in {f \in [DOMAIN rs -> FreshRuleIds(db)] : Injective(f)} :
       \E perms \in {ps \in [DOMAIN rs -> UNION {Perms(k) : k \in 0..MaxRuleLen}] :
                        \A i \in DOMAIN rs : ps[i] \in Perms(RuleLen(rs[i]))} :
          LET r == save_rules(db, open, mgr.engine, rs, rids, perms, fault)
          IN /\ db' = r.db
             /\ open' = r.open
             /\ saved' = saved \cup
                    {[rule_id |-> rids[i], rule |-> rs[i]] :
                        i \in {k \in DOMAIN rs :
                                  \E h \in r.db.rules : h.rule_id = rids[k]}}
             /\ ret' = [NoRet EXCEPT !.op = "save_rules", !.fault = fault,
                                      !.exc = r.exc, !.value = r.value,
                                      !.batch = Len(rs)]
             /\ pc' = "returned"
    /\ UNCHANGED <<conn, entry, mgr, reqs, pair, reader, svc, thr>>

----------------------------------------------------------------------------
(* DatabaseManager.get_rules_by_target_value_paginated *)

JoinRows_inner(d, t) ==
    UNION {
        {[rule_id |-> h.rule_id, target_value |-> h.target_value,
          condition_id |-> rc.condition_id, table_name |-> rc.table_name,
          column_name |-> rc.column_name, operator |-> rc.operator,
          value_text |-> rc.value_text, value_numeric |-> rc.value_numeric] :
            rc \in {x \in d.rule_conditions : x.rule_id = h.rule_id}}
        : h \in {x \in d.rules : x.target_value = t}}

\* FROM rules r LEFT JOIN rule_conditions rc ON r.rule_id = rc.rule_id
\* WHERE r.target_value = :target_value.  A header without conditions gives
\* one row whose rc columns are NULL.
JoinRows(d, t) ==
    UNION {
        LET cs == {rc \in d.rule_conditions : rc.rule_id = h.rule_id}
        IN IF cs = {}
           THEN {[rule_id |-> h.rule_id, target_value |-> h.target_value,
                  condition_id |-> 0, table_name |-> NoneStr,
                  column_name |-> NoneStr, operator |-> NoneStr,
                  value_text |-> None, value_numeric |-> None]}
           ELSE {[rule_id |-> h.rule_id, target_value |-> h.target_value,
                  condition_id |-> rc.condition_id, table_name |-> rc.table_name,
                  column_name |-> rc.column_name, operator |-> rc.operator,
                  value_text |-> rc.value_text,
                  value_numeric |-> rc.value_numeric] : rc \in cs}
        : h \in {x \in d.rules : x.target_value = t}}

\* ORDER BY r.rule_id, rc.condition_id
RowBefore(a, b) ==
    \/ a.rule_id < b.rule_id
    \/ a.rule_id = b.rule_id /\ a.condition_id < b.condition_id

RECURSIVE OrderBy(_)
OrderBy(S) ==
    IF S = {} THEN <<>>
    ELSE LET first == CHOOSE a \in S : \A b \in S \ {a} : RowBefore(a, b)
         IN <<first>> \o OrderBy(S \ {first})

OffsetLimit_no_offset(rows, offset, limit) ==
    SubSeq(rows, 1, IF limit < Len(rows) THEN limit ELSE Len(rows))

\* OFFSET :offset LIMIT :limit
OffsetLimit(rows, offset, limit) ==
    SubSeq(rows, offset + 1,
           IF offset + limit < Len(rows) THEN offset + limit ELSE Len(rows))

\* the rows the SELECT of lines 443-455 returns
SelectPage(d, t, offset, limit) == OffsetLimit(OrderBy(JoinRows(d, t)), offset, limit)

\* one iteration of the grouping loop, lines 471-501, on rules_dict (kept as
\* the sequence of its entries in insertion order)
GroupRow(groups, row) ==
    LET known == \E i \in DOMAIN groups : groups[i].rule_id = row.rule_id
        gs == IF known THEN groups
              ELSE Append(groups,
                     [rule_id |-> row.rule_id, target_value |-> row.target_value,
                      user_conditions |-> <<>>, other_conditions |-> <<>>])
        k == CHOOSE i \in DOMAIN gs : gs[i].rule_id = row.rule_id
        value == IF row.value_numeric # None THEN row.value_numeric
                 ELSE row.value_text
        condition == Cond(row.column_name, row.operator, value)
    IN IF Truthy(row.column_name)
       THEN IF row.table_name = "user_details"
            THEN [gs EXCEPT ![k].user_conditions = Append(@, condition)]
            ELSE [gs EXCEPT ![k].other_conditions = Append(@, condition)]
       ELSE gs

RECURSIVE GroupRows(_, _)
GroupRows(groups, rows) ==
    IF rows = <<>> THEN groups
    ELSE GroupRows(GroupRow(groups, Head(rows)), Tail(rows))

\* lines 504-518: RuleWithID(rule_id, Rule(columns=[], conditions, target))
RuleWithID(g) ==
    [rule_id |-> g.rule_id,
     rule_obj |-> Rule(g.user_conditions, g.other_conditions, g.target_value)]

DecodeRows_all_or_nothing(rows, bad) ==
    LET groups == GroupRows(<<>>, rows)
    IN IF \E i \in DOMAIN groups : groups[i].rule_id \in bad
       THEN <<>>
       ELSE [i \in DOMAIN groups |-> RuleWithID(groups[i])]

\* rows -> list[RuleWithID], lines 468-525.  bad: the rule ids for which the
\* construction of lines 506-517 raises; `except Exception` at line 519 logs
\* a warning and the loop goes on with the next entry of rules_dict
DecodeRows(rows, bad) ==
    LET groups == GroupRows(<<>>, rows)
        built(g) == g.rule_id \notin bad
        kept == SelectSeq(groups, built)
    IN [i \in DOMAIN kept |-> RuleWithID(kept[i])]

\* the body of the with-block, lines 438-531: a fault of the query is caught
\* by `except Exception` and answered with return []
get_rules_body(c, t, offset, limit, fault, bad) ==
    IF fault = "query"
    THEN [c |-> c, exc |-> NoExc, value |-> <<>>]
    ELSE [c |-> c, exc |-> NoExc,
          value |-> DecodeRows(SelectPage(c.tx, t, offset, limit),
                               IF fault = "build" THEN bad ELSE {})]

\* get_rules_by_target_value_paginated(target_value, offset, limit) as one call
get_rules_by_target_value_paginated(d, n, engine, t, offset, limit, fault, bad) ==
    connection(d, n, engine, fault = "connect", fault = "exit_commit",
               get_rules_body(Connect(d), t, offset, limit, fault, bad))

FetchFaults == {"none", "connect", "query", "exit_commit"}

\* the rule ids whose Rule cannot be built: none, or those of one stored rule
BuildFaults(d) == {{}} \cup {{h.rule_id} : h \in d.rules}

FetchPage(t, offset, limit, fault, bad) ==
    /\ pc = "idle"
    /\ fault # "none" => mgr.engine # NoEngine
    /\ (fault = "build") = (bad # {})
    /\ bad \subseteq {h.rule_id : h \in {x \in db.rules : x.target_value = t}}
    /\ LET r == get_rules_by_target_value_paginated(
                    db, open, mgr.engine, t, offset, limit, fault, bad)
       IN /\ db' = r.db
          /\ open' = r.open
          /\ ret' = [NoRet EXCEPT !.op = "get_rules", !.fault = fault,
                                   !.exc = r.exc, !.value = r.value,
                                   !.target = t, !.offset = offset,
                                   !.limit = limit, !.bad = bad]
          /\ pc' = "returned"
    /\ UNCHANGED <<saved, conn, entry, mgr, reqs, pair, reader, svc, thr>>

\* the fetch of a caller that meets no fault: the returned list
Fetch(d, t, offset, limit) ==
    get_rules_by_target_value_paginated(d, 0, ConnStr(ValidCfg), t, offset, limit,
                                        "none", {}).value

----------------------------------------------------------------------------
(* DatabaseManager.get_anime_ids_without_rules *)

\* HAVING COUNT <= 250: a target with at most this many rules is returned
RuleCountCap == 250

\* rule_targets, lines 308-322: the target values that have at most
\* RuleCountCap rules
RuleTargets(d) ==
    {t \in {h.target_value : h \in d.rules} :
        Cardinality({h \in d.rules : h.target_value = t}) <= RuleCountCap}

\* the body of the with-block: list(rule_targets), in the order `order` (a
\* list made from a set has no order the program fixes)
get_anime_ids_body(c, order, fault) ==
    IF fault = "query"
    THEN [c |-> c, exc |-> Exc("ProgrammingError"), value |-> <<>>]
    ELSE [c |-> c, exc |-> NoExc, value |-> order]

get_anime_ids_without_rules(d, n, engine, order, fault) ==
    connection(d, n, engine, fault = "connect", fault = "exit_commit",
               get_anime_ids_body(Connect(d), order, fault))

GetAnimeIds(fault) ==
    /\ pc = "idle"
    /\ fault # "none" => mgr.engine # NoEngine
    /\ \E order \in {f \in [1..Cardinality(RuleTargets(db)) -> RuleTargets(db)] :
                        Injective(f)} :
          LET r == get_anime_ids_without_rules(db, open, mgr.engine, order, fault)
          IN /\ db' = r.db
             /\ open' = r.open
             /\ ret' = [NoRet EXCEPT !.op = "get_anime_ids", !.fault = fault,
                                      !.exc = r.exc, !.value = r.value]
             /\ pc' = "returned"
    /\ UNCHANGED <<saved, conn, entry, mgr, reqs, pair, reader, svc, thr>>

----------------------------------------------------------------------------
(* DatabaseManager.copy_from_buffer and its helpers *)

get_conflict_columns_unkeyed(table) ==
    CASE table = "anime_dataset" -> <<"anime_id">>
      [] OTHER -> <<>>

\* DatabaseManager._get_conflict_columns
get_conflict_columns(table) ==
    CASE table = "user_score" -> <<"user_id", "anime_id">>
      [] table = "anime_dataset" -> <<"anime_id">>
      [] table = "user_details" -> <<"mal_id">>
      [] OTHER -> <<>>

construct_sql_skip(table, columns, conflict_columns, conflict_action) ==
    IF conflict_columns # <<>>
    THEN [table |-> table, columns |-> columns, conflict |-> conflict_columns,
          action |-> "DO NOTHING", set |-> <<>>]
    ELSE [table |-> table, columns |-> columns, conflict |-> <<>>,
          action |-> "", set |-> <<>>]

construct_sql_update(table, columns, conflict_columns, conflict_action) ==
    IF conflict_columns # <<>>
    THEN [table |-> table, columns |-> columns, conflict |-> conflict_columns,
          action |-> "DO UPDATE",
          set |-> SelectSeq(columns, LAMBDA col : col \notin Range(conflict_columns))]
    ELSE [table |-> table, columns |-> columns, conflict |-> <<>>,
          action |-> "", set |-> <<>>]

\* DatabaseManager._construct_sql.  The statement is kept by its parts: the
\* conflict target, the conflict action and the columns of the SET clause.
construct_sql(table, columns, conflict_columns, conflict_action) ==
    IF conflict_columns # <<>>
    THEN IF conflict_action = "DO UPDATE"
         THEN [table |-> table, columns |-> columns,
               conflict |-> conflict_columns, action |-> "DO UPDATE",
               set |-> SelectSeq(columns,
                         LAMBDA col : col \notin Range(conflict_columns))]
         ELSE [table |-> table, columns |-> columns,
               conflict |-> conflict_columns, action |-> conflict_action,
               set |-> <<>>]
    ELSE [table |-> table, columns |-> columns, conflict |-> <<>>,
          action |-> "", set |-> <<>>]

\* the tables of the store the loader writes: user_details(mal_id, username),
\* which export_users_to_csv_buffer reads and whose conflict key is mal_id,
\* user_score(user_id, anime_id, rating) with its two-column conflict key,
\* and a table _get_conflict_columns does not know, with a primary key
TableColumns(table) ==
    CASE table = "user_details" -> <<"mal_id", "username">>
      [] table = "user_score" -> <<"user_id", "anime_id", "rating">>
      [] OTHER -> <<"id", "note">>
UniqueKey(table) ==
    CASE table = "user_details" -> <<"mal_id">>
      [] table = "user_score" -> <<"user_id", "anime_id">>
      [] OTHER -> <<"id">>

\* the store executing the statement for one parameter row, inside the
\* connection's transaction
ExecuteRow(c, sql, row) ==
    LET cols == TableColumns(sql.table)
        full == [k \in Range(cols) |->
                    IF k \in DOMAIN row THEN row[k] ELSE NoneStr]
        tbl == c.tx[sql.table]
        same(e, key) == \A k \in Range(key) : e[k] = full[k]
        hit == {e \in tbl : same(e, sql.conflict)}
    IN IF sql.action = "DO UPDATE" /\ sql.set = <<>>
       THEN [c |-> c, exc |-> Exc("ProgrammingError")]     \* "DO UPDATE SET" and nothing
       ELSE IF \E k \in Range(UniqueKey(sql.table)) : full[k] = NoneStr
       THEN [c |-> c, exc |-> Exc("IntegrityError")]
       ELSE IF sql.conflict # <<>> /\ hit # {}
       THEN IF sql.action = "DO UPDATE"
            THEN [c |-> [c EXCEPT !.tx[sql.table] =
                        (tbl \ hit) \cup
                        {[k \in Range(cols) |->
                            IF k \in Range(sql.set) THEN full[k] ELSE e[k]]
                         : e \in hit}],
                  exc |-> NoExc]
            ELSE [c |-> c, exc |-> NoExc]
       ELSE IF \E e \in tbl : same(e, UniqueKey(sql.table))
       THEN [c |-> c, exc |-> Exc("IntegrityError")]
       ELSE [c |-> [c EXCEPT !.tx[sql.table] = tbl \cup {full}], exc |-> NoExc]

\* conn.execute(text(sql), rows): the statement runs once per row, in order;
\* the first row that fails ends the call and aborts the transaction
RECURSIVE ExecuteMany(_, _, _)
ExecuteMany(c, sql, rows) ==
    IF rows = <<>> THEN [c |-> c, exc |-> NoExc]
    ELSE LET x == ExecuteRow(c, sql, Head(rows))
         IN IF x.exc # NoExc THEN [c |-> Rollback(c), exc |-> x.exc]
            ELSE ExecuteMany(x.c, sql, Tail(rows))

\* cleaned_row, lines 223-226: the null sentinel \N becomes None
CleanRow(row) == [k \in DOMAIN row |-> IF row[k] = "\\N" THEN NoneStr ELSE row[k]]

copy_from_buffer_no_empty_check(c, buffer, table, conflict_action) ==
    LET rows_to_insert == [i \in DOMAIN buffer.rows |-> CleanRow(buffer.rows[i])]
        sql == construct_sql(table, buffer.columns, get_conflict_columns(table),
                             conflict_action)
        x == ExecuteMany(c, sql, rows_to_insert)
    IN IF x.exc # NoExc
       THEN [c |-> x.c, exc |-> x.exc, value |-> FALSE]
       ELSE [c |-> Commit(x.c), exc |-> NoExc, value |-> TRUE]

copy_from_buffer_swallow(c, buffer, table, conflict_action) ==
    LET rows_to_insert == [i \in DOMAIN buffer.rows |-> CleanRow(buffer.rows[i])]
        sql == construct_sql(table, buffer.columns, get_conflict_columns(table),
                             conflict_action)
        x == ExecuteMany(c, sql, rows_to_insert)
    IN IF rows_to_insert = <<>>
       THEN [c |-> c, exc |-> NoExc, value |-> FALSE]
       ELSE IF x.exc # NoExc
       THEN [c |-> x.c, exc |-> NoExc, value |-> FALSE]
       ELSE [c |-> Commit(x.c), exc |-> NoExc, value |-> TRUE]

\* copy_from_buffer(conn, buffer, table, conflict_action), lines 210-253
copy_from_buffer(c, buffer, table, conflict_action) ==
    LET rows_to_insert == [i \in DOMAIN buffer.rows |-> CleanRow(buffer.rows[i])]
        sql == construct_sql(table, buffer.columns, get_conflict_columns(table),
                             conflict_action)
        x == ExecuteMany(c, sql, rows_to_insert)
    IN IF rows_to_insert = <<>>
       THEN [c |-> c, exc |-> NoExc, value |-> FALSE]
       ELSE IF x.exc # NoExc
       THEN [c |-> x.c, exc |-> x.exc, value |-> FALSE]
       ELSE [c |-> Commit(x.c), exc |-> NoExc, value |-> TRUE]

\* CSV buffers callers load: a header and data rows
MaxBufRows == 2
RowsOver(cols, vals) ==
    UNION {[1..n -> [cols -> vals]] : n \in 0..MaxBufRows}
Keyed(rows, key) == \A i \in DOMAIN rows : rows[i][key] \in {"1", "2"}
UserBuffers ==
    {[columns |-> <<"mal_id", "username">>, rows |-> rows] :
        rows \in {rs \in RowsOver({"mal_id", "username"}, {"1", "2", "Foo", "\\N"}) :
                     /\ Keyed(rs, "mal_id")
                     /\ \A i \in DOMAIN rs :
                           \/ rs[i].username = "Foo"
                           \/ rs[i].username = "\\N" /\ rs[i].mal_id = "1"}}
    \cup
    {[columns |-> <<"mal_id">>, rows |-> rows] :
        rows \in RowsOver({"mal_id"}, {"1"})}
LogBuffers ==
    {[columns |-> <<"id", "note">>, rows |-> rows] :
        rows \in {rs \in RowsOver({"id", "note"}, {"1", "2", "a"}) :
                     /\ Keyed(rs, "id")
                     /\ \A i \in DOMAIN rs : rs[i].note = "a"}}
ScoreBuffers ==
    {[columns |-> <<"user_id", "anime_id", "rating">>, rows |-> rows] :
        rows \in {rs \in RowsOver({"user_id", "anime_id", "rating"},
                                  {"1", "2", "7", "9"}) :
                     \A i \in DOMAIN rs :
                        /\ rs[i].user_id = "1"
                        /\ \/ rs[i].anime_id = "1" /\ rs[i].rating \in {"7", "9"}
                           \/ rs[i].anime_id = "2" /\ rs[i].rating = "7"}}
Loads ==
    {[buffer |-> b, table |-> "user_details", action |-> a] :
        b \in UserBuffers, a \in {"DO UPDATE", "DO NOTHING"}}
    \cup
    {[buffer |-> b, table |-> "watch_log", action |-> "DO UPDATE"] : b \in LogBuffers}
ScoreLoads ==
    {[buffer |-> b, table |-> "user_score", action |-> "DO UPDATE"] :
        b \in ScoreBuffers}
    \cup
    {[buffer |-> b, table |-> "user_score", action |-> "DO NOTHING"] :
        b \in {x \in ScoreBuffers : Len(x.rows) = 1}}

----------------------------------------------------------------------------
(* DatabaseManager.export_users_to_csv_buffer *)

\* one CSV line, lines 296-300: None is written as an empty field and
\* formatted into the URL as "None"
ExportLine(row) ==
    <<row.mal_id,
      IF row.username = NoneStr THEN "" ELSE row.username,
      <<"https://myanimelist.net/profile/",
        IF row.username = NoneStr THEN "None" ELSE row.username>>>>

\* the body of the with-block; order: the order in which the SELECT, which
\* has no ORDER BY, returns the rows
export_users_body(c, order, fault) ==
    IF fault = "query"
    THEN [c |-> c, exc |-> Exc("ProgrammingError"), value |-> <<>>]
    ELSE [c |-> c, exc |-> NoExc,
          value |-> <<<<"mal_id", "username", "user_url">>>>
                    \o [i \in DOMAIN order |-> ExportLine(order[i])]]

export_users_to_csv_buffer(d, n, engine, order, fault) ==
    connection(d, n, engine, fault = "connect", fault = "exit_commit",
               export_users_body(Connect(d), order, fault))

ExportUsers(fault) ==
    /\ pc = "idle"
    /\ fault # "none" => mgr.engine # NoEngine
    /\ \E order \in {f \in [1..Cardinality(db.user_details) -> db.user_details] :
                        Injective(f)} :
          LET r == export_users_to_csv_buffer(db, open, mgr.engine, order, fault)
          IN /\ db' = r.db
             /\ open' = r.open
             /\ ret' = [NoRet EXCEPT !.op = "export_users", !.fault = fault,
                                     !.exc = r.exc, !.value = r.value]
             /\ pc' = "returned"
    /\ UNCHANGED <<saved, conn, entry, mgr, reqs, pair, reader, svc, thr>>

----------------------------------------------------------------------------
(* A caller's unit of work: with db.connection() as conn: ... *)

\* entering the with-block: connection() up to its yield
UowEnter(connectFault) ==
    /\ pc = "idle"
    /\ connectFault => mgr.engine # NoEngine
    /\ LET e == connection_enter(mgr.engine, connectFault)
       IN IF e.acquired
          THEN /\ conn' = Connect(db)
               /\ open' = open + 1
               /\ pc' = "body"
               /\ ret' = NoRet
          ELSE /\ conn' = conn
               /\ open' = finally_close(open, FALSE, e.exc)
               /\ pc' = "returned"
               /\ ret' = [NoRet EXCEPT !.op = "unit_of_work", !.fault = "connect",
                                       !.exc = DatabaseErrorFrom(e.exc)]
    /\ entry' = db
    /\ UNCHANGED <<db, saved, mgr, reqs, pair, reader, svc, thr>>

\* leaving the with-block: connection() from its yield on, the body having
\* raised bodyExc (NoExc: it completed)
UowLeave(c, bodyExc, commitFault, fault, load) ==
    LET x == connection_exit(c, open, bodyExc, commitFault)
    IN /\ db' = x.db
       /\ open' = x.open
       /\ conn' = NoConn
       /\ pc' = "returned"
       /\ ret' = [NoRet EXCEPT !.op = "unit_of_work", !.fault = fault,
                               !.exc = x.exc, !.load = load]
       /\ UNCHANGED <<saved, entry, mgr, reqs, pair, reader, svc, thr>>

\* the body calls self.copy_from_buffer(conn, buffer, table, conflict_action);
\* an exception of the call is not caught by the body.  The outcome keeps
\* the arguments of the call and whether it repeats the call before it.
UowCopyFromBuffer(load) ==
    /\ pc = "body"
    /\ LET r == copy_from_buffer(conn, load.buffer, load.table, load.action)
       IN IF r.exc = NoExc
          THEN /\ conn' = r.c
               /\ db' = r.c.db
               /\ ret' = [NoRet EXCEPT !.op = "copy_from_buffer",
                                       !.value = <<r.value>>, !.load = load,
                                       !.batch = Len(load.buffer.rows),
                                       !.again = (ret.op = "copy_from_buffer"
                                                  /\ ret.load = load)]
               /\ UNCHANGED <<saved, open, pc, entry, mgr, reqs, pair, reader, svc, thr>>
          ELSE UowLeave(r.c, r.exc, FALSE, "load", load)

\* the body runs an INSERT of its own on conn, without committing
UowExecute(row) ==
    /\ pc = "body"
    /\ LET sql == construct_sql("watch_log", <<"id", "note">>, <<>>, "")
           x == ExecuteMany(conn, sql, <<row>>)
       IN IF x.exc = NoExc
          THEN /\ conn' = x.c
               /\ ret' = [NoRet EXCEPT !.op = "execute"]
               /\ UNCHANGED <<db, saved, open, pc, entry, mgr, reqs, pair, reader, svc, thr>>
          ELSE UowLeave(x.c, x.exc, FALSE, "statement", NoLoad)

\* the body raises an exception of its own
UowRaise ==
    /\ pc = "body"
    /\ UowLeave(conn, Exc("ValueError"), FALSE, "body", NoLoad)

\* the body completes; commitFault: the commit of line 90 raises
UowExit(commitFault) ==
    /\ pc = "body"
    /\ UowLeave(conn, NoExc, commitFault,
                IF commitFault THEN "exit_commit" ELSE "none", NoLoad)

----------------------------------------------------------------------------
(* Specification of the rule store *)

\* the process after its first DatabaseManager(config) request returned
Init ==
    /\ \E cfg \in {ValidCfg, NoneCfg} : mgr = Construct(NoManager, cfg, FALSE).m
    /\ reqs = <<>>
    /\ db = EmptyDb
    /\ saved = {}
    /\ conn = NoConn
    /\ open = 0
    /\ pc = "idle"
    /\ entry = EmptyDb
    /\ ret = NoRet
    /\ pair = NoPair
    /\ reader = NoReader
    /\ svc = NoSvc
    /\ thr = NoThreads

\* the caller has looked at the outcome of its call and goes on
Proceed ==
    /\ pc = "returned"
    /\ pc' = "idle"
    /\ ret' = NoRet
    /\ entry' = EmptyDb
    /\ UNCHANGED <<db, saved, conn, open, mgr, reqs, pair, reader, svc, thr>>

Next ==
    \/ Proceed
    \/ \E rs \in Batches, fault \in SaveFaults : SaveRules(rs, fault)
    \/ \E t \in Targets, offset \in 0..MaxOffset, limit \in 1..MaxLimit,
          fault \in FetchFaults \cup {"build"}, bad \in BuildFaults(db) :
             FetchPage(t, offset, limit, fault, bad)
    \/ \E fault \in FetchFaults : GetAnimeIds(fault)

Spec == Init /\ [][Next]_vars

----------------------------------------------------------------------------
(* Specification of the scoped connection: units of work, bulk loads and
   exports, with the rule operations on a small input *)

UowBatches == {<<Rule(<<cAge>>, <<>>, 5)>>}
UowLoads == {load \in Loads : Len(load.buffer.rows) <= 1}

NextUow ==
    \/ Proceed
    \/ \E connectFault \in BOOLEAN : UowEnter(connectFault)
    \/ \E load \in UowLoads : UowCopyFromBuffer(load)
    \/ \E id \in {"1", "2"} : UowExecute([id |-> id, note |-> "a"])
    \/ UowRaise
    \/ \E commitFault \in BOOLEAN : UowExit(commitFault)
    \/ \E fault \in FetchFaults : ExportUsers(fault)
    \/ \E rs \in UowBatches, fault \in SaveFaults : SaveRules(rs, fault)
    \/ \E fault \in FetchFaults : FetchPage(5, 0, 1, fault, {})
    \/ \E fault \in FetchFaults : GetAnimeIds(fault)

SpecUow == Init /\ [][NextUow]_vars

----------------------------------------------------------------------------
(* Specification of the bulk loader: units of work that load buffers of up
   to MaxBufRows rows into the keyed tables and into a table without a
   conflict key, next to statements of their own *)

LoadSet == Loads \cup ScoreLoads

\* a run loads one table: a load is offered into a table whose fellow
\* tables are empty
LoaderTables == {"user_details", "user_score", "watch_log"}
LoadOneTable(load) ==
    /\ \A t \in LoaderTables \ {load.table} : conn.tx[t] = {}
    /\ UowCopyFromBuffer(load)

NextLoad ==
    \/ Proceed
    \/ \E connectFault \in BOOLEAN : UowEnter(connectFault)
    \/ \E load \in LoadSet : LoadOneTable(load)
    \/ UowExecute([id |-> "2", note |-> "a"])
    \/ UowRaise
    \/ \E commitFault \in BOOLEAN : UowExit(commitFault)

SpecLoad == Init /\ [][NextLoad]_vars

----------------------------------------------------------------------------
(* Properties of the rule store *)

\* a limit that covers every joined row the store can hold
CoverAll == MaxRules * (MaxRuleLen + 1)

\* the pages a caller gets for target t with a fixed limit, at offsets
\* 0, limit, 2 * limit, ...; the pages past the last row are empty
Pages(d, t, limit) == [k \in 1..(CoverAll + 1) |-> Fetch(d, t, (k - 1) * limit, limit)]

RECURSIVE SumLen(_)
SumLen(pages) == IF pages = <<>> THEN 0 ELSE Len(Head(pages)) + SumLen(Tail(pages))

RuleIdsOf(page) == {page[i].rule_id : i \in DOMAIN page}

C2_ConditionsNotSplit ==
    \A t \in Targets, offset \in 0..MaxOffset, limit \in 1..MaxLimit :
        LET rows == SelectPage(db, t, offset, limit)
            page == Fetch(db, t, offset, limit)
        IN \A i \in DOMAIN page :
              \A rc \in db.rule_conditions :
                 rc.rule_id = page[i].rule_id =>
                    \E k \in DOMAIN rows :
                       /\ rows[k].rule_id = rc.rule_id
                       /\ rows[k].condition_id = rc.condition_id

\* C3: every Rule persisted by save_rules comes back from a fetch on its
\* target (limit covering all rows) under its rule_id with an equal
\* cond_signature().
C3_RoundTripSignature ==
    \A s \in saved :
        LET page == Fetch(db, s.rule.target, 0, CoverAll)
        IN \E i \in DOMAIN page :
              /\ page[i].rule_id = s.rule_id
              /\ cond_signature(page[i].rule_obj) = cond_signature(s.rule)

InsertFaults == {"insert_rules", "insert_conditions"}

\* C4: a save_rules call in which one of the two batched inserts fails leaves
\* the store as it was before the call, and the caller gets the error.
C4_PersistAtomic ==
    [][(pc = "idle" /\ pc' = "returned" /\ ret'.op = "save_rules"
            /\ ret'.fault \in InsertFaults)
        => (db' = db /\ ret'.exc = DatabaseErrorFrom(Exc("IntegrityError")))]_vars

\* C4 witness: the condition insert failed after the header insert of a
\* non-empty batch had been executed
C4_Witness ==
    /\ pc = "returned"
    /\ ret.op = "save_rules"
    /\ ret.fault = "insert_conditions"
    /\ ret.batch >= 1
    /\ ret.exc.kind = "DatabaseError"

\* C9: every fault of a query reaches the caller as a DatabaseError whose
\* cause is the fault; none becomes a normal return value.
C9_QueryFaultsRaised ==
    (pc = "returned" /\ ret.fault \in InsertFaults \cup {"query"})
        => (ret.exc.kind = "DatabaseError"
            /\ ret.exc.cause \in {"IntegrityError", "ProgrammingError"})

C6_ConnectionsReleased ==
    /\ pc \in {"idle", "returned"} => open = 0
    /\ pc = "body" => open = 1

\* C6 witness: a unit of work ended by a fault of the commit, its connection
\* released
C6_Witness ==
    /\ pc = "returned"
    /\ ret.op = "unit_of_work"
    /\ ret.fault = "exit_commit"
    /\ ret.exc.kind = "DatabaseError"
    /\ open = 0

----------------------------------------------------------------------------
(* Specification of the construction requests *)

InitSingleton ==
    /\ mgr = NoManager
    /\ reqs = <<>>
    /\ db = EmptyDb
    /\ saved = {}
    /\ conn = NoConn
    /\ open = 0
    /\ pc = "idle"
    /\ entry = EmptyDb
    /\ ret = NoRet
    /\ pair = NoPair
    /\ reader = NoReader
    /\ svc = NoSvc
    /\ thr = NoThreads

NextSingleton == \E cfg \in Configs, engineFault \in BOOLEAN : Request(cfg, engineFault)

SpecSingleton == InitSingleton /\ [][NextSingleton]_vars

Raised == {i \in DOMAIN reqs : reqs[i].raised}

\* C7, as claimed: after any sequence of requests there is exactly one
\* instance, every request that returned got it, and connection setup has run
\* exactly once.
C7_SetupRunsOnce ==
    reqs # <<>> =>
        /\ mgr.created = 1
        /\ \A i \in DOMAIN reqs : ~reqs[i].raised => reqs[i].returned = 1
        /\ mgr.setupRuns = 1

\* C7, amended: exactly one instance, returned by every request that returns;
\* setup runs once for each request whose setup raised and once for the first
\* request that completes, and no request after a completed one runs it
\* again or changes the config, whatever config it passes.
C7_SingletonSetup ==
    reqs # <<>> =>
        /\ mgr.created = 1
        /\ \A i \in DOMAIN reqs : ~reqs[i].raised => reqs[i].returned = 1
        /\ mgr.setupRuns = Cardinality(Raised) + (IF mgr.initialized THEN 1 ELSE 0)
        /\ \A i, j \in DOMAIN reqs :
              (i < j /\ ~reqs[i].raised) => (~reqs[j].ranSetup /\ ~reqs[j].raised)
        /\ \A i \in DOMAIN reqs :
              (~reqs[i].raised /\ \A k \in 1..(i - 1) : reqs[k].raised)
                  => mgr.config = reqs[i].cfg

\* C7 witness: a second request with another config returned after a first
\* one had completed setup
C7_Witness ==
    /\ Len(reqs) >= 2
    /\ ~reqs[1].raised
    /\ ~reqs[2].raised
    /\ reqs[2].cfg # reqs[1].cfg
    /\ reqs[2].returned = reqs[1].returned

\* a config with a "required connection parameter absent or empty"
RequiredMissing(cfg) ==
    \/ ~cfg.present
    \/ \E f \in {"user", "password", "host", "database"} : cfg[f] = ""
    \/ cfg.port = 0

\* C8: a construction that runs setup with a config in which a required
\* parameter is absent or empty raises, and leaves no initialized instance.
C8_FailsFast ==
    \A i \in DOMAIN reqs :
        (RequiredMissing(reqs[i].cfg) /\ reqs[i].ranSetup) =>
            /\ reqs[i].raised
            /\ (i = Len(reqs) => ~mgr.initialized)

----------------------------------------------------------------------------
(* Specification of the Rule algebra: two Rules are drawn, the operations
   of rule.py are applied to them *)

AlgebraConds ==
    {Cond("age", ">", PyInt("18")), Cond("age", ">", PyInt("30")),
     Cond("age", "==", PyInt("18"))}
BlocksOver(conds) == UNION {[1..n -> conds] : n \in 0..MaxBlockLen}
AlgebraRules ==
    {Rule(u, o, t) : u \in BlocksOver(AlgebraConds),
                     o \in BlocksOver({cGenre, cAge}), t \in Targets}

InitRule ==
    /\ \E a \in AlgebraRules, b \in AlgebraRules :
          pair = [phase |-> "input", a |-> a, b |-> b, eq |-> FALSE,
                  hash_a |-> 0, hash_b |-> 0, subset |-> FALSE,
                  more_specific |-> FALSE]
    /\ mgr = NoManager
    /\ reqs = <<>>
    /\ db = EmptyDb
    /\ saved = {}
    /\ conn = NoConn
    /\ open = 0
    /\ pc = "idle"
    /\ entry = EmptyDb
    /\ ret = NoRet
    /\ reader = NoReader
    /\ svc = NoSvc
    /\ thr = NoThreads

\* a == b, hash(a), hash(b), a.is_subset_of(b), a.is_more_specific_than(b)
Compare ==
    /\ pair.phase = "input"
    /\ pair' = [pair EXCEPT !.phase = "done",
                            !.eq = RuleEq(pair.a, pair.b),
                            !.hash_a = RuleHash(pair.a),
                            !.hash_b = RuleHash(pair.b),
                            !.subset = is_subset_of(pair.a, pair.b),
                            !.more_specific = is_more_specific_than(pair.a, pair.b)]
    /\ UNCHANGED <<db, saved, conn, open, pc, entry, ret, mgr, reqs, reader, svc, thr>>

NextRule == Compare

SpecRule == InitRule /\ [][NextRule]_vars

\* the (column, operator) pairs that occur in a block
PairsIn(block) == {<<c.column, c.operator>> : c \in Range(block)}

\* C10: a == b exactly when the two user blocks have the same set of
\* (column, operator) pairs, the two other blocks have the same set, and the
\* targets are equal; and a == b implies hash(a) == hash(b).
C10_EqualityBySignature ==
    pair.phase = "done" =>
        /\ pair.eq <=>
              /\ PairsIn(pair.a.user_conditions) = PairsIn(pair.b.user_conditions)
              /\ PairsIn(pair.a.other_conditions) = PairsIn(pair.b.other_conditions)
              /\ pair.a.target = pair.b.target
        /\ pair.eq => pair.hash_a = pair.hash_b

\* C10 witness: two Rules found equal whose user blocks differ in length (one
\* repeats a pair) and in the values of their conditions
C10_Witness ==
    /\ pair.phase = "done"
    /\ pair.eq
    /\ Len(pair.a.user_conditions) = 1
    /\ Len(pair.b.user_conditions) = 2
    /\ pair.a.user_conditions[1] \notin Range(pair.b.user_conditions)
    /\ pair.b.user_conditions[1] = pair.b.user_conditions[2]

\* C11: is_subset_of(a, b) is false when the targets differ; with equal
\* targets it is true exactly when a's user-block pairs are among b's
\* user-block pairs and a's other-block pairs among b's other-block pairs.
C11_SubsetPerBlock ==
    pair.phase = "done" =>
        pair.subset <=>
            /\ pair.a.target = pair.b.target
            /\ PairsIn(pair.a.user_conditions) \subseteq PairsIn(pair.b.user_conditions)
            /\ PairsIn(pair.a.other_conditions) \subseteq PairsIn(pair.b.other_conditions)

\* C11 witness: equal targets, every pair of a occurs somewhere in b, but a
\* pair of a's user block occurs only in b's other block: not a subset
C11_Witness ==
    /\ pair.phase = "done"
    /\ pair.a.target = pair.b.target
    /\ ~pair.subset
    /\ pair.a.user_conditions # <<>>
    /\ PairsIn(pair.a.user_conditions \o pair.a.other_conditions)
          \subseteq PairsIn(pair.b.user_conditions \o pair.b.other_conditions)

\* C12: is_more_specific_than(a, b) is true exactly when is_subset_of(a, b)
\* holds and a has strictly more conditions than b, counted on the raw
\* sequences of both blocks with duplicates; with equal counts it is false.
C12_MoreSpecificRawCount ==
    pair.phase = "done" =>
        pair.more_specific <=>
            /\ pair.subset
            /\ Len(pair.a.user_conditions) + Len(pair.a.other_conditions)
                  > Len(pair.b.user_conditions) + Len(pair.b.other_conditions)

\* C12 witness: a is more specific than b only by a repeated pair: its
\* signature is no larger than b's
C12_Witness ==
    /\ pair.phase = "done"
    /\ pair.more_specific
    /\ PairsIn(pair.a.user_conditions) = PairsIn(pair.b.user_conditions)
    /\ PairsIn(pair.a.other_conditions) = PairsIn(pair.b.other_conditions)
    /\ Len(pair.a.user_conditions) = 2
    /\ Len(pair.b.user_conditions) = 1

----------------------------------------------------------------------------
(* Properties of the bulk loader *)

\* the tables with a conflict key, and the key
KeyedTables == {"user_score", "anime_dataset", "user_details"}
ConflictKey(table) ==
    CASE table = "user_score" -> {"user_id", "anime_id"}
      [] table = "anime_dataset" -> {"anime_id"}
      [] table = "user_details" -> {"mal_id"}
      [] OTHER -> {}

\* the incoming rows of a load, the null sentinel read as NULL
Incoming(load) == [i \in DOMAIN load.buffer.rows |-> CleanRow(load.buffer.rows[i])]
SameKey(e, row, key) == \A k \in key : e[k] = row[k]
\* columns of the buffer that are not key columns: row and e agree on them
SameNonKey(e, row, load) ==
    \A col \in Range(load.buffer.columns) \ ConflictKey(load.table) : e[col] = row[col]

\* a call of copy_from_buffer ends in this step: it returned into the body, or
\* it raised and ended the unit of work
LoadEnds == pc = "body" /\ ret'.load # NoLoad
LoadReturns == LoadEnds /\ pc' = "body" /\ ret'.op = "copy_from_buffer"

\* C13: a load with the update policy into a table with a conflict key,
\* repeated with the same buffer, returns True again and leaves the table
\* with the rows the first load left.
C13_LoadTwiceAsOnce ==
    [][(/\ LoadEnds
        /\ ret.op = "copy_from_buffer"
        /\ ret.value = <<TRUE>>
        /\ ret.load.action = "DO UPDATE"
        /\ ret.load.table \in KeyedTables
        /\ ret'.load = ret.load)
       => (/\ pc' = "body"
           /\ ret'.value = <<TRUE>>
           /\ conn'.db[ret.load.table] = conn.db[ret.load.table]
           /\ db'[ret.load.table] = db[ret.load.table])]_vars

\* C13 witness: the same two-row buffer was loaded twice in a row with the
\* update policy into a keyed table that had held another value for a key
C13_Witness ==
    /\ pc = "body"
    /\ ret.op = "copy_from_buffer"
    /\ ret.again
    /\ ret.value = <<TRUE>>
    /\ ret.load.action = "DO UPDATE"
    /\ ret.load.table \in KeyedTables
    /\ ret.batch = 2
    /\ \E e \in entry[ret.load.table] : e \notin db[ret.load.table]

\* C14: a load with the update policy into a table with a conflict key gives
\* every existing row whose key matches an incoming row the incoming values
\* in the non-key columns of the buffer, and leaves every existing row whose
\* key matches no incoming row as it was.
C14_UpdatePolicy ==
    [][(/\ LoadReturns
        /\ ret'.value = <<TRUE>>
        /\ ret'.load.action = "DO UPDATE"
        /\ ret'.load.table \in KeyedTables)
       => LET load == ret'.load
              key == ConflictKey(load.table)
              rows == Incoming(load)
          IN \A e \in conn.tx[load.table] :
                LET hits == {i \in DOMAIN rows : SameKey(e, rows[i], key)}
                IN IF hits = {}
                   THEN e \in conn'.tx[load.table]
                   ELSE \E e2 \in conn'.tx[load.table] :
                           /\ SameKey(e2, e, key)
                           /\ \E i \in hits : SameNonKey(e2, rows[i], load)]_vars

\* C14 witness: a load with the update policy changed the row of one key and
\* no incoming row had the key of another stored row
C14_Witness ==
    /\ pc = "body"
    /\ ret.op = "copy_from_buffer"
    /\ ret.value = <<TRUE>>
    /\ ret.load.action = "DO UPDATE"
    /\ ret.load.table \in KeyedTables
    /\ ~ret.again
    /\ LET load == ret.load
           key == ConflictKey(load.table)
           rows == Incoming(load)
       IN /\ \E e \in entry[load.table] :
                /\ e \notin db[load.table]
                /\ \E i \in DOMAIN rows : SameKey(e, rows[i], key)
          /\ \E e \in entry[load.table] :
                /\ e \in db[load.table]
                /\ \A i \in DOMAIN rows : ~SameKey(e, rows[i], key)

\* C15: a load with the skip policy into a table with a conflict key raises
\* no error for a key that exists, leaves every row the table held unchanged,
\* and inserts the incoming rows whose keys are new.
C15_SkipPolicy ==
    [][(/\ LoadEnds
        /\ ret'.load.action = "DO NOTHING"
        /\ ret'.load.table \in KeyedTables
        /\ ret'.load.buffer.rows # <<>>)
       => LET load == ret'.load
              key == ConflictKey(load.table)
              rows == Incoming(load)
              before == conn.tx[load.table]
              after == conn'.tx[load.table]
          IN /\ pc' = "body"
             /\ ret'.value = <<TRUE>>
             /\ before \subseteq after
             /\ \A e2 \in after \ before : \E i \in DOMAIN rows :
                   /\ SameKey(e2, rows[i], key)
                   /\ SameNonKey(e2, rows[i], load)
             /\ \A i \in DOMAIN rows : \E e2 \in after : SameKey(e2, rows[i], key)]_vars

\* C15 witness: a load with the skip policy met a stored key with another
\* value, which it left, and a new key, which it inserted
C15_Witness ==
    /\ pc = "body"
    /\ ret.op = "copy_from_buffer"
    /\ ret.value = <<TRUE>>
    /\ ret.load.action = "DO NOTHING"
    /\ ret.load.table \in KeyedTables
    /\ LET load == ret.load
           key == ConflictKey(load.table)
           rows == Incoming(load)
       IN /\ \E e \in entry[load.table], i \in DOMAIN rows :
                /\ SameKey(e, rows[i], key)
                /\ ~SameNonKey(e, rows[i], load)
                /\ e \in db[load.table]
          /\ \E e \in db[load.table] \ entry[load.table], i \in DOMAIN rows :
                SameKey(e, rows[i], key)

\* C16: a load of a buffer without data rows returns False, executes nothing
\* and commits nothing; a load that succeeds with a data row returns True.
C16_EmptyInput ==
    [][LoadEnds
       => /\ ret'.load.buffer.rows = <<>>
               => (/\ pc' = "body"
                   /\ ret'.value = <<FALSE>>
                   /\ conn' = conn
                   /\ db' = db)
          /\ (ret'.load.buffer.rows # <<>> /\ pc' = "body")
               => ret'.value = <<TRUE>>]_vars

\* C16 witness: a header-only buffer was loaded while the unit of work had an
\* uncommitted statement of its own, which stayed uncommitted
C16_Witness ==
    /\ pc = "body"
    /\ ret.op = "copy_from_buffer"
    /\ ret.batch = 0
    /\ ret.value = <<FALSE>>
    /\ conn.tx # conn.db

\* the rows of a load into a table without conflict key violate the table's
\* primary key: a key is stored already or occurs twice in the buffer
KeyViolation(load, c) ==
    LET rows == Incoming(load)
        pk == Range(UniqueKey(load.table))
    IN \/ \E i \in DOMAIN rows, e \in c.tx[load.table] : SameKey(e, rows[i], pk)
       \/ \E i, j \in DOMAIN rows : i < j /\ SameKey(rows[i], rows[j], pk)

\* C17: a load in which a row violates a uniqueness constraint persists none
\* of the rows of the batch and raises the violation to the caller; it
\* returns neither True nor False.
C17_LoadIntegrityFault ==
    [][(/\ LoadEnds
        /\ \/ ret'.exc.cause = "IntegrityError"
           \/ (ret'.load.table \notin KeyedTables /\ KeyViolation(ret'.load, conn)))
       => (/\ pc' = "returned"
           /\ ret'.value = <<>>
           /\ ret'.exc = DatabaseErrorFrom(Exc("IntegrityError"))
           /\ db' = db)]_vars

\* C17 witness: the second row of a batch repeated the key of the first,
\* which was new to the table; the load raised and the first row is not stored
C17_Witness ==
    /\ pc = "returned"
    /\ ret.fault = "load"
    /\ ret.exc.cause = "IntegrityError"
    /\ Len(ret.load.buffer.rows) = 2
    /\ ret.load.buffer.rows[1].id = ret.load.buffer.rows[2].id
    /\ \A e \in db.watch_log : e.id # ret.load.buffer.rows[1].id

----------------------------------------------------------------------------
(* Properties of the stored encoding *)

\* a save_rules call that returned without raising
SaveReturns ==
    pc = "idle" /\ pc' = "returned" /\ ret'.op = "save_rules" /\ ret'.exc = NoExc

\* the conditions of a Rule, each with the block it stands in
TaggedConds(r) ==
    {[block |-> "user", cond |-> r.user_conditions[i]] :
        i \in DOMAIN r.user_conditions}
    \cup
    {[block |-> "other", cond |-> r.other_conditions[j]] :
        j \in DOMAIN r.other_conditions}

\* the value is of a numeric type: an integer or a float of Python or numpy
NumericType(v) == v.type \in {"int", "float", "numpy.int64", "numpy.float64"}

\* the condition a condition row was written for
WrittenFor(rc, S) ==
    {tc \in UNION {TaggedConds(x.rule) : x \in {y \in S : y.rule_id = rc.rule_id}} :
        tc.cond.column = rc.column_name /\ tc.cond.operator = rc.operator}

RoutedByType(rc, v) ==
    /\ (rc.value_text = None) # (rc.value_numeric = None)
    /\ IF NumericType(v)
       THEN rc.value_numeric = v /\ rc.value_text = None
       ELSE rc.value_text = Str(v) /\ rc.value_numeric = None

DecodedValue(rc) ==
    IF rc.value_numeric # None THEN rc.value_numeric ELSE rc.value_text

\* C18: every condition row written by save_rules has exactly one of
\* value_text / value_numeric non-null: value_numeric when the value of its
\* condition is of a numeric type, value_text (the stringified value)
\* otherwise; and every condition of a fetched Rule has the value_numeric of
\* its row when that is non-null, else its value_text.
C18_ValueRouting ==
    /\ [][SaveReturns =>
            \A rc \in db'.rule_conditions \ db.rule_conditions :
               /\ WrittenFor(rc, saved' \ saved) # {}
               /\ \A tc \in WrittenFor(rc, saved' \ saved) :
                     RoutedByType(rc, tc.cond.value)]_vars
    /\ [](\A t \in Targets :
            LET page == Fetch(db, t, 0, CoverAll)
            IN \A i \in DOMAIN page :
                  \A tc \in TaggedConds(page[i].rule_obj) :
                     \E rc \in db.rule_conditions :
                        /\ rc.rule_id = page[i].rule_id
                        /\ rc.column_name = tc.cond.column
                        /\ rc.operator = tc.cond.operator
                        /\ tc.cond.value = DecodedValue(rc))

\* the header and condition rows a call added
NewHeaders == db'.rules \ db.rules
NewConditions == db'.rule_conditions \ db.rule_conditions

\* the tag save_rules gives the conditions of a block
TagOf(block) == IF block = "user" THEN "user_details" ELSE "anime_dataset"

\* a successful save_rules added one header per Rule and, for each Rule, one
\* row per condition under the rule_id of its header, tagged by block
EncodedShape ==
    /\ Cardinality(NewHeaders) = ret'.batch
    /\ Cardinality(saved' \ saved) = ret'.batch
    /\ \A rc \in NewConditions : \E x \in saved' \ saved : x.rule_id = rc.rule_id
    /\ \A x \in saved' \ saved :
          /\ HeaderRow(x.rule_id, x.rule) \in NewHeaders
          /\ Cardinality({rc \in NewConditions : rc.rule_id = x.rule_id})
                = RuleLen(x.rule)
          /\ \A block \in {"user", "other"} :
                Cardinality({rc \in NewConditions :
                                rc.rule_id = x.rule_id /\ rc.table_name = TagOf(block)})
                  = Cardinality({i \in 1..MaxRuleLen :
                        i <= Len(IF block = "user" THEN x.rule.user_conditions
                                 ELSE x.rule.other_conditions)})
          /\ \A rc \in {y \in NewConditions : y.rule_id = x.rule_id} :
                \E tc \in TaggedConds(x.rule) :
                   /\ rc.table_name = TagOf(tc.block)
                   /\ rc.column_name = tc.cond.column
                   /\ rc.operator = tc.cond.operator
    /\ \A a, b \in db'.rule_conditions : a.condition_id = b.condition_id => a = b

\* the condition rows of rule_id rid among the rows of a page
ConditionRowsOf(rows, rid) ==
    {k \in DOMAIN rows : rows[k].rule_id = rid /\ rows[k].table_name # NoneStr}

\* the read put every row tagged "user_details" in user_conditions and every
\* row with another tag in other_conditions
DecodedShape ==
    \A t \in Targets :
        LET rows == SelectPage(db, t, 0, CoverAll)
            page == Fetch(db, t, 0, CoverAll)
        IN \A i \in DOMAIN page :
              LET mine == ConditionRowsOf(rows, page[i].rule_id)
                  tagged == {k \in mine : rows[k].table_name = "user_details"}
              IN /\ Len(page[i].rule_obj.user_conditions) = Cardinality(tagged)
                 /\ Len(page[i].rule_obj.other_conditions)
                       = Cardinality(mine \ tagged)
                 /\ \A k \in tagged :
                       \E j \in DOMAIN page[i].rule_obj.user_conditions :
                          page[i].rule_obj.user_conditions[j].column
                             = rows[k].column_name
                 /\ \A k \in mine \ tagged :
                       \E j \in DOMAIN page[i].rule_obj.other_conditions :
                          page[i].rule_obj.other_conditions[j].column
                             = rows[k].column_name

\* C19: a successful save_rules(rules) adds exactly len(rules) header rows
\* and sum(len(r)) condition rows, each condition row under the rule_id of
\* the header of its Rule, with a condition_id of its own and the tag of its
\* block; and the read puts a row tagged "user_details" in user_conditions
\* and a row with any other tag in other_conditions.
C19_EncodingShape ==
    /\ [][SaveReturns => EncodedShape]_vars
    /\ []DecodedShape

\* the encode clause alone
EncodedShapeAlways == [][SaveReturns => EncodedShape]_vars

\* a save_rules call that ended, by return or by raise
SaveEnds == pc = "idle" /\ pc' = "returned" /\ ret'.op = "save_rules"

\* C20: save_rules only appends and never de-duplicates: a successful call
\* adds one header per Rule passed, so the headers number the Rules passed so
\* far, each under a rule_id of its own with its own condition rows (Rules
\* that are == included); and no call modifies or removes a stored header or
\* condition row.
C20_AppendOnly ==
    /\ [][SaveReturns =>
            Cardinality(db'.rules) = Cardinality(db.rules) + ret'.batch]_vars
    /\ [][SaveEnds =>
            /\ db.rules \subseteq db'.rules
            /\ db.rule_conditions \subseteq db'.rule_conditions]_vars
    /\ [](/\ Cardinality(db.rules) = Cardinality(saved)
          /\ \A x, y \in saved : x.rule_id = y.rule_id => x = y
          /\ \A x \in saved :
                /\ HeaderRow(x.rule_id, x.rule) \in db.rules
                /\ Cardinality({rc \in db.rule_conditions : rc.rule_id = x.rule_id})
                      = RuleLen(x.rule))

\* C20 witness: a call that saved one Rule returned, and the store holds two
\* Rules that are == under different rule_ids, each with condition rows
C20_Witness ==
    /\ pc = "returned"
    /\ ret.op = "save_rules"
    /\ ret.exc = NoExc
    /\ ret.batch = 1
    /\ \E x, y \in saved :
          /\ x.rule_id # y.rule_id
          /\ RuleEq(x.rule, y.rule)
          /\ RuleLen(x.rule) > 0
          /\ HeaderRow(x.rule_id, x.rule) \in db.rules
          /\ HeaderRow(y.rule_id, y.rule) \in db.rules

----------------------------------------------------------------------------
(* Properties of the read path *)

\* a fetch that ended
FetchEnds == pc = "idle" /\ pc' = "returned" /\ ret'.op = "get_rules"

\* the rule ids of the rows of a page, each once, in the order of their
\* first row
RECURSIVE FirstSeen(_)
FirstSeen(rows) ==
    IF rows = <<>> THEN <<>>
    ELSE LET n == Len(rows)
             before == FirstSeen(SubSeq(rows, 1, n - 1))
         IN IF \E j \in 1..(n - 1) : rows[j].rule_id = rows[n].rule_id
            THEN before
            ELSE Append(before, rows[n].rule_id)

\* a sequence without the members of a set
RECURSIVE Without(_, _)
Without(seq, S) ==
    IF seq = <<>> THEN <<>>
    ELSE IF Head(seq) \in S THEN Without(Tail(seq), S)
         ELSE <<Head(seq)>> \o Without(Tail(seq), S)

\* C21: when the Rule of one rule_id of a fetched page cannot be built, the
\* fetch returns without raising the other rules of the page, each as the
\* fetch without the fault returns it, in the order in which their rule ids
\* are first seen in the rows; only that rule_id is left out.
C21_DecodeFaultIsolation ==
    [][(FetchEnds /\ ret'.fault = "build") =>
          LET rows == SelectPage(db, ret'.target, ret'.offset, ret'.limit)
              full == Fetch(db, ret'.target, ret'.offset, ret'.limit)
              got == ret'.value
          IN /\ ret'.exc = NoExc
             /\ [i \in DOMAIN got |-> got[i].rule_id]
                   = Without(FirstSeen(rows), ret'.bad)
             /\ \A i \in DOMAIN got : \E k \in DOMAIN full : full[k] = got[i]]_vars

\* C21 witness: a fetch whose page held the rule that could not be built and
\* another rule returned the other one
C21_Witness ==
    /\ pc = "returned"
    /\ ret.op = "get_rules"
    /\ ret.fault = "build"
    /\ ret.exc = NoExc
    /\ Len(ret.value) >= 1
    /\ \E k \in DOMAIN SelectPage(db, ret.target, ret.offset, ret.limit) :
          SelectPage(db, ret.target, ret.offset, ret.limit)[k].rule_id \in ret.bad

\* the stored headers no condition row refers to
BareHeaders(d) ==
    {h \in d.rules : \A rc \in d.rule_conditions : rc.rule_id # h.rule_id}

\* C22: a stored header without condition rows is returned by the fetch on
\* its target (with a window that covers its row) as one RuleWithID whose
\* Rule has two empty blocks and the target of the header.
C22_BareHeaderReturned ==
    \A h \in BareHeaders(db) :
        LET page == Fetch(db, h.target_value, 0, CoverAll)
            mine == {i \in DOMAIN page : page[i].rule_id = h.rule_id}
        IN /\ Cardinality(mine) = 1
           /\ \A i \in mine :
                 page[i].rule_obj = Rule(<<>>, <<>>, h.target_value)

\* C22 witness: a fetch returned, next to a rule with conditions, the rule of
\* a header without condition rows
C22_Witness ==
    /\ pc = "returned"
    /\ ret.op = "get_rules"
    /\ ret.fault = "none"
    /\ Len(ret.value) = 2
    /\ db.rule_conditions # {}
    /\ \E i \in DOMAIN ret.value :
          /\ ret.value[i].rule_obj = Rule(<<>>, <<>>, ret.target)
          /\ \E h \in BareHeaders(db) : h.rule_id = ret.value[i].rule_id

----------------------------------------------------------------------------
(* Specification of a reader that pages through one target while another
   caller persists rules.  Each fetch is one call of
   get_rules_by_target_value_paginated, so one SELECT on the committed store;
   the reader keeps no transaction between two fetches. *)

PagingBatches == {<<r>> : r \in {x \in RulePool : x.target = 5}}

\* the reader asks for the first page of target t
ReaderStart(t, limit) ==
    /\ reader.phase = "off"
    /\ reader' = [phase |-> "paging", t |-> t, limit |-> limit, offset |-> 0,
                  pages |-> <<>>, stores |-> <<>>]
    /\ UNCHANGED <<db, saved, conn, open, pc, entry, ret, mgr, reqs, pair, svc, thr>>

\* the reader fetches the page at its offset and moves the offset on by limit;
\* an empty page ends the pagination
ReaderFetch ==
    /\ reader.phase = "paging"
    /\ reader.offset <= CoverAll
    /\ LET page == Fetch(db, reader.t, reader.offset, reader.limit)
       IN reader' = [reader EXCEPT
                        !.pages = Append(@, page),
                        !.stores = Append(@, db),
                        !.offset = @ + reader.limit,
                        !.phase = IF page = <<>> THEN "done" ELSE "paging"]
    /\ UNCHANGED <<db, saved, conn, open, pc, entry, ret, mgr, reqs, pair, svc, thr>>

NextPaging ==
    \/ Proceed
    \/ \E rs \in PagingBatches : SaveRules(rs, "none")
    \/ \E t \in Targets, limit \in 1..MaxLimit : ReaderStart(t, limit)
    \/ ReaderFetch

SpecPaging == Init /\ [][NextPaging]_vars

\* the rows the SELECT finds for the reader's target in the store of its
\* i-th fetch, before the window is cut out
ReaderRows(i) == OrderBy(JoinRows(reader.stores[i], reader.t))

\* the last row of the reader's i-th page, when that page's window was full
LastRowRead(i) == ReaderRows(i)[i * reader.limit]

\* between the reader's fetches i and i + 1 rows were committed that sort
\* before the last row of page i, and moved it into the window of page i + 1
ShiftedIntoNext(i) ==
    /\ i + 1 \in DOMAIN reader.pages
    /\ Len(ReaderRows(i)) >= i * reader.limit
    /\ \E k \in DOMAIN ReaderRows(i + 1) :
          /\ ReaderRows(i + 1)[k] = LastRowRead(i)
          /\ k > i * reader.limit
          /\ k <= (i + 1) * reader.limit

\* C23: when a save_rules call commits, between two successive fetches of a
\* reader paging through target t, rows that sort before the last row the
\* reader has read, the next page returns the rule_id of that row again: the
\* reader's pages together return a rule_id twice.
C23_WriterShiftsPages ==
    reader.phase # "off" =>
        \A i \in DOMAIN reader.pages :
            ShiftedIntoNext(i) =>
                LastRowRead(i).rule_id
                    \in RuleIdsOf(reader.pages[i]) \cap RuleIdsOf(reader.pages[i + 1])

\* C23 witness: a rule stored before the pagination started, with at most
\* one condition row (so that no two pages of a static store hold it), was
\* returned by two successive pages of the reader
C23_Witness ==
    /\ reader.phase # "off"
    /\ \E i \in DOMAIN reader.pages :
          /\ ShiftedIntoNext(i)
          /\ reader.stores[i] # reader.stores[i + 1]
          /\ \E h \in reader.stores[1].rules : h.rule_id = LastRowRead(i).rule_id
          /\ Cardinality({rc \in db.rule_conditions :
                             rc.rule_id = LastRowRead(i).rule_id}) <= 1
          /\ LastRowRead(i).rule_id
                \in RuleIdsOf(reader.pages[i]) \cap RuleIdsOf(reader.pages[i + 1])

\* the rule ids stored for target t
StoredIds(d, t) == {h.rule_id : h \in {x \in d.rules : x.target_value = t}}

\* C24: over a static store, the caller that fetches the pages of target t
\* with offsets 0, limit, 2 * limit, ... and stops at the first page with
\* fewer than limit results has by then received every rule stored for t.
C24_StopRule ==
    \A t \in Targets, limit \in 1..MaxLimit :
        LET pages == Pages(db, t, limit)
        IN \A k \in DOMAIN pages :
              (/\ Len(pages[k]) < limit
               /\ \A j \in 1..(k - 1) : Len(pages[j]) >= limit)
              => StoredIds(db, t) \subseteq UNION {RuleIdsOf(pages[j]) : j \in 1..k}

----------------------------------------------------------------------------
(* bbdd_maker/anime_service.py: AnimeService._fetch_anime *)

AnimeIds == {1, 2}

\* what requests.get and raise_for_status make of one request: the data of a
\* 2xx response, a 404, or a RequestException (HTTPError of a 5xx or a 429,
\* Timeout)
Responses == {"200", "404", "500", "429", "timeout"}
RequestFailed(resp) == resp \in {"500", "429", "timeout"}

\* response.json().get("data")
AnimeData(anime_id) == [type |-> "dict", repr |-> anime_id]

\* no value returned yet
NoResult == [type |-> "", repr |-> 0]

RECURSIVE Pow2(_)
Pow2(k) == IF k = 0 THEN 1 ELSE 2 * Pow2(k - 1)

backoff_always(attempt, max_retries) == <<[ev |-> "sleep", arg |-> Pow2(attempt)]>>

\* lines 83-85: if attempt < max_retries - 1: time.sleep(2**attempt)
backoff(attempt, max_retries) ==
    IF attempt < max_retries - 1
    THEN <<[ev |-> "sleep", arg |-> Pow2(attempt)]>>
    ELSE <<>>

\* _fetch_anime(anime_id) is called by a service with config.max_retries
FetchCalled(anime_id, max_retries) ==
    [pc |-> "try", anime_id |-> anime_id, max_retries |-> max_retries,
     attempt |-> 0, log |-> <<>>, result |-> NoResult]

\* lines 56-74: one request of the loop `for attempt in range(max_retries)`
FetchRequest(resp) ==
    /\ svc.pc = "try"
    /\ svc.attempt < svc.max_retries
    /\ svc' = [svc EXCEPT
                  !.log = Append(@, [ev |-> "get", arg |-> resp]),
                  !.pc = IF RequestFailed(resp) THEN "except" ELSE "returned",
                  !.result = IF resp = "404" THEN None
                             ELSE IF resp = "200" THEN AnimeData(svc.anime_id)
                             ELSE @]
    /\ UNCHANGED <<db, saved, conn, open, pc, entry, ret, mgr, reqs, pair, reader,
                   thr>>

\* lines 75-85: the handler of requests.RequestException, then the next
\* iteration
FetchBackoff ==
    /\ svc.pc = "except"
    /\ svc' = [svc EXCEPT
                  !.log = @ \o backoff(svc.attempt, svc.max_retries),
                  !.attempt = @ + 1,
                  !.pc = "try"]
    /\ UNCHANGED <<db, saved, conn, open, pc, entry, ret, mgr, reqs, pair, reader,
                   thr>>

\* lines 86-91: the range is used up
FetchExhausted ==
    /\ svc.pc = "try"
    /\ svc.attempt >= svc.max_retries
    /\ svc' = [svc EXCEPT !.pc = "returned", !.result = None]
    /\ UNCHANGED <<db, saved, conn, open, pc, entry, ret, mgr, reqs, pair, reader,
                   thr>>

InitFetch ==
    /\ \E anime_id \in AnimeIds, max_retries \in 0..MaxRetries :
          svc = FetchCalled(anime_id, max_retries)
    /\ mgr = NoManager
    /\ reqs = <<>>
    /\ db = EmptyDb
    /\ saved = {}
    /\ conn = NoConn
    /\ open = 0
    /\ pc = "idle"
    /\ entry = EmptyDb
    /\ ret = NoRet
    /\ pair = NoPair
    /\ reader = NoReader
    /\ thr = NoThreads

NextFetch ==
    \/ \E resp \in Responses : FetchRequest(resp)
    \/ FetchBackoff
    \/ FetchExhausted

\* the call runs on: every request ends (timeout=config.timeout) and every
\* sleep ends
SpecFetch == InitFetch /\ [][NextFetch]_vars /\ WF_vars(NextFetch)

\* the positions of the requests in the log of the call
GetsIn(log) == {i \in DOMAIN log : log[i].ev = "get"}

\* the 0-based attempt number of the request at position i
AttemptOf(log, i) == Cardinality({j \in GetsIn(log) : j < i})

\* what the call has done so far is what the retry rule allows
RetryRule ==
    LET log == svc.log
        m == svc.max_retries
    IN /\ Cardinality(GetsIn(log)) <= m
       /\ \A i \in DOMAIN log :
             IF log[i].ev = "sleep"
             THEN /\ i > 1
                  /\ log[i - 1].ev = "get"
                  /\ RequestFailed(log[i - 1].arg)
                  /\ log[i].arg = Pow2(AttemptOf(log, i - 1))
             ELSE IF log[i].arg = "404"
             THEN i = Len(log) /\ svc.pc = "returned" /\ svc.result = None
             ELSE IF log[i].arg = "200"
             THEN /\ i = Len(log)
                  /\ svc.pc = "returned"
                  /\ svc.result = AnimeData(svc.anime_id)
             ELSE IF AttemptOf(log, i) = m - 1
             THEN i = Len(log)
             ELSE i < Len(log) => log[i + 1].ev = "sleep"
       /\ (svc.pc = "returned" /\ \A i \in GetsIn(log) : RequestFailed(log[i].arg))
             => svc.result = None /\ Cardinality(GetsIn(log)) = m

\* C25: _fetch_anime makes at most max_retries requests and returns: None at
\* once on a 404, the data on the attempt that succeeds, and None when every
\* attempt has failed; it sleeps 2^k after failed attempt k (0-based) when
\* another attempt follows and does not sleep after the last attempt.
C25_BoundedRetry == []RetryRule /\ <>(svc.pc = "returned")

\* C25 witness: with max_retries = 3 every attempt failed; the call slept 1
\* and 2 and returned None after the third request
C25_Witness ==
    /\ svc.pc = "returned"
    /\ svc.max_retries = 3
    /\ svc.result = None
    /\ Len(svc.log) = 5
    /\ svc.log[2] = [ev |-> "sleep", arg |-> 1]
    /\ svc.log[4] = [ev |-> "sleep", arg |-> 2]
    /\ svc.log[5].ev = "get"

----------------------------------------------------------------------------
(* Further properties of the Rule algebra *)

\* no (column, operator) pair occurs twice in the block
NoRepeatedPair(block) ==
    \A i, j \in DOMAIN block :
        (block[i].column = block[j].column /\ block[i].operator = block[j].operator)
            => i = j

\* C26: a Rule a none of whose blocks repeats a (column, operator) pair is
\* more specific than no Rule b.
C26_NeverMoreSpecific ==
    (/\ pair.phase = "done"
     /\ NoRepeatedPair(pair.a.user_conditions)
     /\ NoRepeatedPair(pair.a.other_conditions))
        => ~pair.more_specific

\* C26 witness: a, without repeated pairs, is a subset of a b with more
\* conditions, and is_more_specific_than(a, b) was False
C26_Witness ==
    /\ pair.phase = "done"
    /\ NoRepeatedPair(pair.a.user_conditions)
    /\ NoRepeatedPair(pair.a.other_conditions)
    /\ Len(pair.a.user_conditions) = 1
    /\ Len(pair.a.other_conditions) = 1
    /\ pair.subset
    /\ RuleLen(pair.b) > RuleLen(pair.a)
    /\ ~pair.more_specific

----------------------------------------------------------------------------
(* Specification of the subset order: three Rules are drawn and compared
   with each other *)

cAge30 == Cond("age", ">", PyInt("30"))

OrderUserBlocks ==
    {<<>>, <<cAge>>, <<cAge30>>, <<cSex>>, <<cAge, cAge30>>, <<cAge, cSex>>,
     <<cSex, cAge30>>}
OrderOtherBlocks == {<<>>, <<cGenre>>, <<cAge>>}
OrderRules ==
    {Rule(u, o, t) : u \in OrderUserBlocks, o \in OrderOtherBlocks, t \in Targets}

InitOrder ==
    /\ \E a \in OrderRules, b \in OrderRules, c \in OrderRules :
          pair = [phase |-> "three", a |-> a, b |-> b, c |-> c,
                  eq_ab |-> FALSE, aa |-> FALSE, ab |-> FALSE, ba |-> FALSE,
                  bc |-> FALSE, ac |-> FALSE]
    /\ mgr = NoManager
    /\ reqs = <<>>
    /\ db = EmptyDb
    /\ saved = {}
    /\ conn = NoConn
    /\ open = 0
    /\ pc = "idle"
    /\ entry = EmptyDb
    /\ ret = NoRet
    /\ reader = NoReader
    /\ svc = NoSvc
    /\ thr = NoThreads

\* a == b and the is_subset_of calls among a, b and c
CompareThree ==
    /\ pair.phase = "three"
    /\ pair' = [pair EXCEPT !.phase = "compared",
                            !.eq_ab = RuleEq(pair.a, pair.b),
                            !.aa = is_subset_of(pair.a, pair.a),
                            !.ab = is_subset_of(pair.a, pair.b),
                            !.ba = is_subset_of(pair.b, pair.a),
                            !.bc = is_subset_of(pair.b, pair.c),
                            !.ac = is_subset_of(pair.a, pair.c)]
    /\ UNCHANGED <<db, saved, conn, open, pc, entry, ret, mgr, reqs, reader, svc,
                   thr>>

NextOrder == CompareThree

SpecOrder == InitOrder /\ [][NextOrder]_vars

\* C27: is_subset_of is reflexive and transitive, and a and b are subsets of
\* each other exactly when a == b.
C27_SubsetPreorder ==
    pair.phase = "compared" =>
        /\ pair.aa
        /\ (pair.ab /\ pair.bc) => pair.ac
        /\ (pair.ab /\ pair.ba) <=> pair.eq_ab

\* C27 witness: a is a proper subset of b and b of c, and a second case in
\* which a and b, different lists of conditions, are subsets of each other
C27_Witness ==
    /\ pair.phase = "compared"
    /\ pair.ab /\ pair.ba /\ pair.eq_ab
    /\ pair.a.user_conditions # pair.b.user_conditions
    /\ pair.bc /\ pair.ac
    /\ ~RuleEq(pair.b, pair.c)

----------------------------------------------------------------------------
(* Specification of concurrent construction: two threads call
   DatabaseManager(config) when the class has no instance yet.  A thread can
   be switched out between any two statements of __new__ and __init__; the
   class holds no lock. *)

Threads == {1, 2}

\* thr.instance: cls._instance (0 is None, otherwise the index of the object
\* in thr.objs); thr.objs: the objects created, each with its _initialized
\* attribute ("unset" until line 51 sets it) and the number of initialize()
\* runs on it; thr.t: per thread, its position and the object it holds
ThreadsStart ==
    [instance |-> 0, objs |-> <<>>,
     t |-> [i \in Threads |-> [pc |-> "new_check", self |-> 0]]]

ThreadAt(i, at) == thr # NoThreads /\ thr.t[i].pc = at

ThreadVarsUnchanged ==
    UNCHANGED <<db, saved, conn, open, pc, entry, ret, mgr, reqs, pair, reader, svc>>

\* line 49: if cls._instance is None
NewCheck(i) ==
    /\ ThreadAt(i, "new_check")
    /\ thr' = [thr EXCEPT !.t[i].pc = IF thr.instance = 0 THEN "new_create"
                                      ELSE "new_return"]
    /\ ThreadVarsUnchanged

\* line 50: cls._instance = super().__new__(cls)
NewCreate(i) ==
    /\ ThreadAt(i, "new_create")
    /\ thr' = [thr EXCEPT
                  !.objs = Append(@, [initialized |-> "unset", setup |-> 0]),
                  !.instance = Len(thr.objs) + 1,
                  !.t[i].pc = "new_flag"]
    /\ ThreadVarsUnchanged

\* line 51: cls._instance._initialized = False
NewFlag(i) ==
    /\ ThreadAt(i, "new_flag")
    /\ thr' = [thr EXCEPT !.objs[thr.instance].initialized = "False",
                          !.t[i].pc = "new_return"]
    /\ ThreadVarsUnchanged

\* line 52: return cls._instance; type.__call__ then calls __init__ on it
NewReturn(i) ==
    /\ ThreadAt(i, "new_return")
    /\ thr' = [thr EXCEPT !.t[i].self = thr.instance, !.t[i].pc = "init_check"]
    /\ ThreadVarsUnchanged

\* lines 62-63: if self._initialized: return (AttributeError when the
\* attribute is not set yet)
InitCheck(i) ==
    /\ ThreadAt(i, "init_check")
    /\ LET flag == thr.objs[thr.t[i].self].initialized
       IN thr' = [thr EXCEPT !.t[i].pc = IF flag = "unset" THEN "raised"
                                         ELSE IF flag = "True" THEN "done"
                                         ELSE "init_setup"]
    /\ ThreadVarsUnchanged

\* lines 64-67: self.config = config; ...; self.initialize()
InitSetup(i) ==
    /\ ThreadAt(i, "init_setup")
    /\ thr' = [thr EXCEPT !.objs[thr.t[i].self].setup = @ + 1,
                          !.t[i].pc = "init_flag"]
    /\ ThreadVarsUnchanged

\* line 68: self._initialized = True
InitFlag(i) ==
    /\ ThreadAt(i, "init_flag")
    /\ thr' = [thr EXCEPT !.objs[thr.t[i].self].initialized = "True",
                          !.t[i].pc = "done"]
    /\ ThreadVarsUnchanged

InitThreads ==
    /\ thr = ThreadsStart
    /\ mgr = NoManager
    /\ reqs = <<>>
    /\ db = EmptyDb
    /\ saved = {}
    /\ conn = NoConn
    /\ open = 0
    /\ pc = "idle"
    /\ entry = EmptyDb
    /\ ret = NoRet
    /\ pair = NoPair
    /\ reader = NoReader
    /\ svc = NoSvc

NextThreads ==
    \E i \in Threads :
        \/ NewCheck(i)
        \/ NewCreate(i)
        \/ NewFlag(i)
        \/ NewReturn(i)
        \/ InitCheck(i)
        \/ InitSetup(i)
        \/ InitFlag(i)

SpecThreads == InitThreads /\ [][NextThreads]_vars

\* initialize() runs so far, on all objects
RECURSIVE SetupRuns(_)
SetupRuns(objs) ==
    IF objs = <<>> THEN 0 ELSE Head(objs).setup + SetupRuns(Tail(objs))

\* C28: when both threads have finished their construction request, one
\* instance has been created and initialize() has run once.
C28_ConcurrentSingleton ==
    (thr # NoThreads /\ \A i \in Threads : thr.t[i].pc \in {"done", "raised"})
        => Len(thr.objs) = 1 /\ SetupRuns(thr.objs) = 1

----------------------------------------------------------------------------
(* Further properties of the read path and of the loader's statement *)

\* C29: every rule of a fetched page has as many conditions, user and other
\* together, as the page has condition rows joined to its rule_id, whatever
\* the stored column_name.
C29_DecodeKeepsConditions ==
    \A t \in Targets, offset \in 0..MaxOffset, limit \in 1..MaxLimit :
        LET rows == SelectPage(db, t, offset, limit)
            page == Fetch(db, t, offset, limit)
        IN \A i \in DOMAIN page :
              RuleLen(page[i].rule_obj)
                 = Cardinality(ConditionRowsOf(rows, page[i].rule_id))

====
